---- MODULE Spec2Model ----
(***************************************************************************)
(* Model of run.py, the grader of the monitoring-stack challenge: the five *)
(* configuration checkers and check_all_configs, which runs them over the  *)
(* five files, sums the points and reports a percentage.                   *)
(*                                                                         *)
(* File contents are TLA+ strings, so that Python's substring tests,       *)
(* split() and slices are computed character by character.  The dashboard  *)
(* file is a sequence of JSON tokens that json_loads parses.               *)
(***************************************************************************)
EXTENDS Integers, Sequences, FiniteSets, TLC

VARIABLES
    pc,            \* "call"/"returned" (one checker applied), "loop"/"done" (check_all_configs), "raised"
    i,             \* position in config_checks (1-based)
    content,       \* what load_file_content returned for the current file
    checks,        \* the checker's list of (name, passed, detail)
    points,        \* the checker's points
    max_points,    \* the checker's max_points
    total_points,  \* check_all_configs: running sum of points
    max_total,     \* check_all_configs: running sum of max_points
    progress_pct,  \* check_all_configs: the reported percentage
    reports        \* history: (absent, points, max_points) of every file graded so far

vars == <<pc, i, content, checks, points, max_points, total_points, max_total,
          progress_pct, reports>>

-----------------------------------------------------------------------------
(* Python values and string operations used by the checkers.               *)

\* load_file_content: None for a missing file, the text otherwise.
None == [none |-> TRUE]

File(text) == [none |-> FALSE, text |-> text]

Max(a, b) == IF a > b THEN a ELSE b

\* Python: p in s (substring test).
Contains(s, p) ==
    \E k \in 1..(Len(s) - Len(p) + 1) : SubSeq(s, k, k + Len(p) - 1) = p

\* The positions at which p occurs in s.
Occurrences(s, p) ==
    { k \in 1..(Len(s) - Len(p) + 1) : SubSeq(s, k, k + Len(p) - 1) = p }

\* Python: s.find(p) + 1, or 0 when p does not occur.
Find(s, p) ==
    IF Occurrences(s, p) = {} THEN 0
    ELSE CHOOSE k \in Occurrences(s, p) : \A j \in Occurrences(s, p) : k <= j

\* Python: s.split(sep)[0], the text before the first occurrence of sep.
SplitFirst(s, sep) ==
    IF Find(s, sep) = 0 THEN s ELSE SubSeq(s, 1, Find(s, sep) - 1)

\* Python: s[-n:].
LastN(s, n) == SubSeq(s, Max(1, Len(s) - n + 1), Len(s))

\* Python: s.startswith(p).
StartsWith(s, p) == Len(s) >= Len(p) /\ SubSeq(s, 1, Len(p)) = p

\* Python: s.split('\n').
RECURSIVE SplitLines(_)
SplitLines(s) ==
    IF Find(s, "\n") = 0 THEN <<s>>
    ELSE <<SubSeq(s, 1, Find(s, "\n") - 1)>>
            \o SplitLines(SubSeq(s, Find(s, "\n") + 1, Len(s)))

IsSpace(ch) == ch \in {" ", "\t", "\r", "\n"}

\* Python: s.lstrip() / s.strip().
RECURSIVE LStrip(_)
LStrip(s) ==
    IF Len(s) > 0 /\ IsSpace(SubSeq(s, 1, 1)) THEN LStrip(SubSeq(s, 2, Len(s))) ELSE s

RECURSIVE RStrip(_)
RStrip(s) ==
    IF Len(s) > 0 /\ IsSpace(SubSeq(s, Len(s), Len(s)))
    THEN RStrip(SubSeq(s, 1, Len(s) - 1)) ELSE s

Strip(s) == RStrip(LStrip(s))

\* What a checker hands back: (checks, points, max_points), or the exception it raised.
Returned(cs, p, m) == [raised |-> "", checks |-> cs, points |-> p, max_points |-> m]

Raised(exc, m) == [raised |-> exc, checks |-> <<>>, points |-> 0, max_points |-> m]

-----------------------------------------------------------------------------
(* check_prometheus_config                                                 *)

prometheus_max_points == 20


\* The scrape_interval rule with "if" for "elif": both branches add their points.
ScrapeIntervalRule_IfForElif(text) ==
    IF Contains(text, "scrape_interval: 15s")
    THEN [check |-> <<"Scrape interval 15s", TRUE, "Configured">>,
          pts |-> 4 + (IF Contains(text, "scrape_interval:") THEN 2 ELSE 0)]
    ELSE IF Contains(text, "scrape_interval:")
    THEN [check |-> <<"Scrape interval 15s", FALSE, "Wrong value">>, pts |-> 2]
    ELSE [check |-> <<"Scrape interval 15s", FALSE, "Missing">>, pts |-> 0]

\* lines 60-67: the scrape_interval rule.
ScrapeIntervalRule(text) ==
    IF Contains(text, "scrape_interval: 15s")
    THEN [check |-> <<"Scrape interval 15s", TRUE, "Configured">>, pts |-> 4]
    ELSE IF Contains(text, "scrape_interval:")
    THEN [check |-> <<"Scrape interval 15s", FALSE, "Wrong value">>, pts |-> 2]
    ELSE [check |-> <<"Scrape interval 15s", FALSE, "Missing">>, pts |-> 0]

\* lines 70-74: the alertmanagers rule, with its slice heuristic.
AlertmanagerRule(text) ==
    IF /\ Contains(text, "alertmanagers:")
       /\ ~Contains(LastN(SplitFirst(text, "alertmanagers:"), 20), "# alertmanagers")
    THEN [check |-> <<"Alertmanager config", TRUE, "Configured">>, pts |-> 4]
    ELSE [check |-> <<"Alertmanager config", FALSE, "Missing or commented">>, pts |-> 0]

jobs == <<"prometheus", "app", "node">>

JobPattern(job) == "job_name: '" \o job \o "'"

JobAltPattern(job) == "job_name: \"" \o job \o "\""

\* line 81: the condition under which a job counts as configured.
JobConfigured(text, job) ==
    /\ Contains(text, JobPattern(job)) \/ Contains(text, JobAltPattern(job))
    /\ ~Contains(text, "# " \o JobPattern(job))

\* lines 78-85: one iteration of the jobs loop.
JobRule(text, job) ==
    IF JobConfigured(text, job)
    THEN [check |-> <<"Job: " \o job, TRUE, "Configured">>, pts |-> 4]
    ELSE [check |-> <<"Job: " \o job, FALSE, "Missing or commented">>, pts |-> 0]

\* The rules of one checker, folded: the checks in order and the points summed.
RECURSIVE SumPts(_)
SumPts(rs) == IF rs = <<>> THEN 0 ELSE Head(rs).pts + SumPts(Tail(rs))

ChecksOf(rs) == [k \in 1..Len(rs) |-> rs[k].check]

check_prometheus_config(c) ==
    IF c.none
    THEN Returned(<<<<"prometheus.yml exists", FALSE, "File not found">>>>, 0,
                  prometheus_max_points)
    ELSE LET rs == <<ScrapeIntervalRule(c.text), AlertmanagerRule(c.text)>>
                      \o [k \in 1..Len(jobs) |-> JobRule(c.text, jobs[k])]
         IN  Returned(ChecksOf(rs), SumPts(rs), prometheus_max_points)

-----------------------------------------------------------------------------
(* check_alertmanager_config                                               *)

alertmanager_max_points == 20

\* lines 100-125: four literal-presence rules of the same shape.
LiteralRule(text, literal, name, pts) ==
    IF Contains(text, literal)
    THEN [check |-> <<name, TRUE, "">>, pts |-> pts]
    ELSE [check |-> <<name, FALSE, "Missing">>, pts |-> 0]

check_alertmanager_config(c) ==
    IF c.none
    THEN Returned(<<<<"alertmanager.yml exists", FALSE, "File not found">>>>, 0,
                  alertmanager_max_points)
    ELSE LET rs == << LiteralRule(c.text, "route:", "Route configured", 5),
                      LiteralRule(c.text, "receivers:", "Receivers defined", 5),
                      LiteralRule(c.text, "group_by:", "Group by configured", 5),
                      LiteralRule(c.text, "inhibit_rules:", "Inhibit rules", 5) >>
         IN  Returned(ChecksOf(rs), SumPts(rs), alertmanager_max_points)

-----------------------------------------------------------------------------
(* check_grafana_datasource                                                *)

datasource_max_points == 15

\* lines 140-144
DatasourcesRule(text) ==
    IF /\ Contains(text, "datasources:")
       /\ ~Contains(LastN(SplitFirst(text, "datasources:"), 5), "# datasources")
    THEN [check |-> <<"Datasources defined", TRUE, "">>, pts |-> 3]
    ELSE [check |-> <<"Datasources defined", FALSE, "Missing or commented">>, pts |-> 0]

\* lines 147-151
PrometheusTypeRule(text) ==
    IF Contains(text, "type: prometheus") /\ ~Contains(text, "# type: prometheus")
    THEN [check |-> <<"Prometheus type", TRUE, "">>, pts |-> 4]
    ELSE [check |-> <<"Prometheus type", FALSE, "Missing or commented">>, pts |-> 0]

\* lines 154-158
PrometheusUrlRule(text) ==
    IF \/ Contains(text, "url: http://prometheus:9090")
       \/ Contains(text, "url: \"http://prometheus:9090\"")
    THEN [check |-> <<"Prometheus URL", TRUE, "">>, pts |-> 4]
    ELSE [check |-> <<"Prometheus URL", FALSE, "Missing or wrong">>, pts |-> 0]

check_grafana_datasource(c) ==
    IF c.none
    THEN Returned(<<<<"datasource config exists", FALSE, "File not found">>>>, 0,
                  datasource_max_points)
    ELSE LET rs == << DatasourcesRule(c.text),
                      PrometheusTypeRule(c.text),
                      PrometheusUrlRule(c.text),
                      LiteralRule(c.text, "isDefault: true", "Is default", 4) >>
         IN  Returned(ChecksOf(rs), SumPts(rs), datasource_max_points)

-----------------------------------------------------------------------------
(* check_alerts                                                            *)

alerts_max_points == 20

alert_names == <<"HighErrorRate", "HighLatency", "ServiceDown", "HighCPUUsage">>

AlertLiteral(alert) == "alert: " \o alert


\* The scan without strip(): only a # in the first column marks a comment.
RECURSIVE ScanLines_NoStrip(_, _)
ScanLines_NoStrip(lines, literal) ==
    IF lines = <<>> THEN FALSE
    ELSE IF StartsWith(Head(lines), "#") THEN ScanLines_NoStrip(Tail(lines), literal)
    ELSE IF Contains(Head(lines), literal) THEN TRUE
    ELSE ScanLines_NoStrip(Tail(lines), literal)

\* lines 244-250: the scan that looks for the literal on a line that is not a comment.
RECURSIVE ScanLines(_, _)
ScanLines(lines, literal) ==
    IF lines = <<>> THEN FALSE
    ELSE IF StartsWith(Strip(Head(lines)), "#") THEN ScanLines(Tail(lines), literal)
    ELSE IF Contains(Head(lines), literal) THEN TRUE
    ELSE ScanLines(Tail(lines), literal)

\* lines 240-258: one iteration of the alert_names loop.
AlertRule(text, alert) ==
    IF Contains(text, AlertLiteral(alert))
    THEN IF ScanLines(SplitLines(text), AlertLiteral(alert))
         THEN [check |-> <<"Alert: " \o alert, TRUE, "Configured">>, pts |-> 5]
         ELSE [check |-> <<"Alert: " \o alert, FALSE, "Commented out">>, pts |-> 0]
    ELSE [check |-> <<"Alert: " \o alert, FALSE, "Missing">>, pts |-> 0]


\* check_alerts with a missing file read as an empty one.
check_alerts_NoneAsEmpty(c) ==
    LET text == IF c.none THEN "" ELSE c.text
        rs == [k \in 1..Len(alert_names) |-> AlertRule(text, alert_names[k])]
    IN  Returned(ChecksOf(rs), SumPts(rs), alerts_max_points)

check_alerts(c) ==
    IF c.none
    THEN Returned(<<<<"alerts.yml exists", FALSE, "File not found">>>>, 0, alerts_max_points)
    ELSE LET rs == [k \in 1..Len(alert_names) |-> AlertRule(c.text, alert_names[k])]
         IN  Returned(ChecksOf(rs), SumPts(rs), alerts_max_points)

-----------------------------------------------------------------------------
(* JSON: the values json.loads builds, and json.loads over a token sequence *)

JNull == [k |-> "null", v |-> <<>>]

JBool(b) == [k |-> "bool", v |-> b]

JNum(n) == [k |-> "num", v |-> n]

JStr(s) == [k |-> "str", v |-> s]

JList(elems) == [k |-> "list", v |-> elems]

\* A dict: its (key, value) pairs in insertion order, keys distinct.
JObj(pairs) == [k |-> "obj", v |-> pairs]

HasKey(pairs, key) == \E n \in 1..Len(pairs) : pairs[n][1] = key

\* Python: d[key] = val (a repeated key of a JSON object keeps its last value).
Put(pairs, key, val) ==
    IF HasKey(pairs, key)
    THEN [n \in 1..Len(pairs) |-> IF pairs[n][1] = key THEN <<key, val>> ELSE pairs[n]]
    ELSE Append(pairs, <<key, val>>)

\* Python: d.get(key, default) on a dict d.
Get(obj, key, default) ==
    IF HasKey(obj.v, key)
    THEN obj.v[CHOOSE n \in 1..Len(obj.v) : obj.v[n][1] = key][2]
    ELSE default

Digits == <<"0", "1", "2", "3", "4", "5", "6", "7", "8", "9">>

IsDigit(ch) == \E d \in 1..Len(Digits) : Digits[d] = ch

DigitValue(ch) == (CHOOSE d \in 1..Len(Digits) : Digits[d] = ch) - 1

\* A JSON token: punctuation, a quoted string, an integer literal, null, true or false.
IsStringTok(t) ==
    Len(t) >= 2 /\ SubSeq(t, 1, 1) = "\"" /\ SubSeq(t, Len(t), Len(t)) = "\""

IsNumberTok(t) ==
    /\ Len(t) >= 1
    /\ \A n \in 1..Len(t) : IsDigit(SubSeq(t, n, n))
    /\ Len(t) > 1 => SubSeq(t, 1, 1) # "0"

RECURSIVE NumberOf(_)
NumberOf(t) ==
    IF Len(t) = 0 THEN 0
    ELSE 10 * NumberOf(SubSeq(t, 1, Len(t) - 1)) + DigitValue(SubSeq(t, Len(t), Len(t)))

ParseOk(val, next) == [ok |-> TRUE, val |-> val, next |-> next]

ParseFail == [ok |-> FALSE, val |-> JNull, next |-> 0]

RECURSIVE ParseValue(_, _), ParseElements(_, _, _), ParseMembers(_, _, _)

\* One JSON value starting at token p.
ParseValue(toks, p) ==
    IF p > Len(toks) THEN ParseFail
    ELSE LET t == toks[p] IN
         IF t = "{"
         THEN IF p + 1 <= Len(toks) /\ toks[p + 1] = "}"
              THEN ParseOk(JObj(<<>>), p + 2)
              ELSE ParseMembers(toks, p + 1, <<>>)
         ELSE IF t = "["
         THEN IF p + 1 <= Len(toks) /\ toks[p + 1] = "]"
              THEN ParseOk(JList(<<>>), p + 2)
              ELSE ParseElements(toks, p + 1, <<>>)
         ELSE IF t = "null" THEN ParseOk(JNull, p + 1)
         ELSE IF t = "true" THEN ParseOk(JBool(TRUE), p + 1)
         ELSE IF t = "false" THEN ParseOk(JBool(FALSE), p + 1)
         ELSE IF IsStringTok(t) THEN ParseOk(JStr(SubSeq(t, 2, Len(t) - 1)), p + 1)
         ELSE IF IsNumberTok(t) THEN ParseOk(JNum(NumberOf(t)), p + 1)
         ELSE ParseFail

\* The elements of an array after "[" or ",": value ("," value)* "]".
ParseElements(toks, p, acc) ==
    LET r == ParseValue(toks, p) IN
    IF ~r.ok \/ r.next > Len(toks) THEN ParseFail
    ELSE IF toks[r.next] = "," THEN ParseElements(toks, r.next + 1, Append(acc, r.val))
    ELSE IF toks[r.next] = "]" THEN ParseOk(JList(Append(acc, r.val)), r.next + 1)
    ELSE ParseFail

\* The members of an object after "{" or ",": string ":" value ("," ...)* "}".
ParseMembers(toks, p, acc) ==
    IF p + 1 > Len(toks) \/ ~IsStringTok(toks[p]) \/ toks[p + 1] # ":" THEN ParseFail
    ELSE LET key == SubSeq(toks[p], 2, Len(toks[p]) - 1)
             r == ParseValue(toks, p + 2)
         IN  IF ~r.ok \/ r.next > Len(toks) THEN ParseFail
             ELSE IF toks[r.next] = ","
             THEN ParseMembers(toks, r.next + 1, Put(acc, key, r.val))
             ELSE IF toks[r.next] = "}"
             THEN ParseOk(JObj(Put(acc, key, r.val)), r.next + 1)
             ELSE ParseFail

\* json.loads: the whole text must be one JSON value, else JSONDecodeError (ok = FALSE).
json_loads(toks) ==
    LET r == ParseValue(toks, 1) IN
    IF r.ok /\ r.next = Len(toks) + 1 THEN r ELSE ParseFail

-----------------------------------------------------------------------------
(* check_dashboard                                                         *)

dashboard_max_points == 25

\* Python's bool(x).
Truthy(x) ==
    IF x.k = "null" THEN FALSE
    ELSE IF x.k = "bool" THEN x.v
    ELSE IF x.k = "num" THEN x.v # 0
    ELSE Len(x.v) > 0

\* Python: can x be passed to len() and iterated (a list, a str or a dict)?
IsSized(x) == x.k \in {"list", "str", "obj"}

\* Python: what "for e in x" yields (a str yields its characters, a dict its keys).
Iter(x) ==
    IF x.k = "list" THEN x.v
    ELSE IF x.k = "str" THEN [n \in 1..Len(x.v) |-> JStr(SubSeq(x.v, n, n))]
    ELSE [n \in 1..Len(x.v) |-> JStr(x.v[n][1])]

\* Python: 'REPLACE_WITH' in expr, for an expr that supports "in".
HasPlaceholder(expr) ==
    IF expr.k = "str" THEN Contains(expr.v, "REPLACE_WITH")
    ELSE IF expr.k = "list"
    THEN \E n \in 1..Len(expr.v) : expr.v[n].k = "str" /\ expr.v[n].v = "REPLACE_WITH"
    ELSE HasKey(expr.v, "REPLACE_WITH")

\* Python: expr and expr != ''
IsRealQuery(expr) == Truthy(expr) /\ ~(expr.k = "str" /\ expr.v = "")

\* The state of the scan of lines 196-205, or the exception that ended it.
ScanState(real, placeholders) ==
    [raised |-> "", has_real_queries |-> real, placeholder_count |-> placeholders]

ScanRaised(exc) == [raised |-> exc, has_real_queries |-> FALSE, placeholder_count |-> 0]

\* lines 200-205: the loop over one panel's targets.
RECURSIVE ScanTargets(_, _)
ScanTargets(targets, st) ==
    IF targets = <<>> THEN st
    ELSE LET target == Head(targets) IN
         IF target.k # "obj" THEN ScanRaised("AttributeError")        \* target.get
         ELSE LET expr == Get(target, "expr", JStr("")) IN
              IF ~IsSized(expr) THEN ScanRaised("TypeError")          \* 'REPLACE_WITH' in expr
              ELSE IF HasPlaceholder(expr)
              THEN ScanTargets(Tail(targets),
                               ScanState(st.has_real_queries, st.placeholder_count + 1))
              ELSE IF IsRealQuery(expr)
              THEN ScanTargets(Tail(targets), ScanState(TRUE, st.placeholder_count))
              ELSE ScanTargets(Tail(targets), st)

\* lines 198-205: the loop over the panels.
RECURSIVE ScanPanels(_, _)
ScanPanels(panels, st) ==
    IF panels = <<>> THEN st
    ELSE LET panel == Head(panels) IN
         IF panel.k # "obj" THEN ScanRaised("AttributeError")         \* panel.get
         ELSE LET targets == Get(panel, "targets", JList(<<>>)) IN
              IF ~IsSized(targets) THEN ScanRaised("TypeError")       \* for target in targets
              ELSE LET after == ScanTargets(Iter(targets), st) IN
                   IF after.raised # "" THEN after
                   ELSE ScanPanels(Tail(panels), after)

\* lines 189-193: the panel-count rule.
PanelCountRule(n) ==
    IF n >= 4
    THEN [check |-> <<"4+ panels", TRUE, ToString(n) \o " panels">>, pts |-> 5]
    ELSE [check |-> <<"4+ panels", FALSE, "Only " \o ToString(n) \o " panels">>, pts |-> 0]

\* lines 207-214: the query rule, from the result of the scan.
QueryRule(st) ==
    IF st.has_real_queries /\ st.placeholder_count = 0
    THEN [check |-> <<"Real PromQL queries", TRUE, "All panels have queries">>, pts |-> 10]
    ELSE IF st.has_real_queries
    THEN [check |-> <<"Real PromQL queries", FALSE,
                      ToString(st.placeholder_count) \o " placeholders remaining">>,
          pts |-> 5]
    ELSE [check |-> <<"Real PromQL queries", FALSE, "No real queries">>, pts |-> 0]

\* The detail of a passed title check: the title itself, shown as text.
TitleText(t) ==
    IF t.k = "str" THEN t.v
    ELSE IF t.k = "num" THEN ToString(t.v)
    ELSE IF t.k = "bool" THEN "True"
    ELSE "<" \o t.k \o ">"


\* The title rule without the partial credit of line 222.
TitleRule_NoPartialCredit(dashboard) ==
    LET title == Get(dashboard, "title", JNull) IN
    IF Truthy(title) /\ ~(title.k = "str" /\ title.v = "App Dashboard")
    THEN [check |-> <<"Custom title", TRUE, TitleText(title)>>, pts |-> 5]
    ELSE [check |-> <<"Custom title", FALSE, "Using default title">>, pts |-> 0]

\* lines 217-222: the title rule.
TitleRule(dashboard) ==
    LET title == Get(dashboard, "title", JNull) IN
    IF Truthy(title) /\ ~(title.k = "str" /\ title.v = "App Dashboard")
    THEN [check |-> <<"Custom title", TRUE, TitleText(title)>>, pts |-> 5]
    ELSE [check |-> <<"Custom title", FALSE, "Using default title">>, pts |-> 2]

\* lines 184-224: the rules applied to a parsed dashboard.
GradeDashboard(dashboard) ==
    IF dashboard.k # "obj" THEN Raised("AttributeError", dashboard_max_points) \* dashboard.get
    ELSE LET panels == Get(dashboard, "panels", JList(<<>>)) IN
         IF ~IsSized(panels) THEN Raised("TypeError", dashboard_max_points)    \* len(panels)
         ELSE LET st == ScanPanels(Iter(panels), ScanState(FALSE, 0)) IN
              IF st.raised # "" THEN Raised(st.raised, dashboard_max_points)
              ELSE LET rs == << [check |-> <<"Valid JSON", TRUE, "">>, pts |-> 5],
                                PanelCountRule(Len(panels.v)),
                                QueryRule(st),
                                TitleRule(dashboard) >>
                   IN  Returned(ChecksOf(rs), SumPts(rs), dashboard_max_points)


\* check_dashboard going on to the title rule, with an empty dashboard, when the text
\* does not parse.
check_dashboard_PartialOnInvalid(c) ==
    IF c.none
    THEN Returned(<<<<"dashboard.json exists", FALSE, "File not found">>>>, 0,
                  dashboard_max_points)
    ELSE LET parsed == json_loads(c.text) IN
         IF ~parsed.ok
         THEN Returned(<< <<"Valid JSON", FALSE, "Invalid JSON">>,
                          TitleRule(JObj(<<>>)).check >>,
                       TitleRule(JObj(<<>>)).pts, dashboard_max_points)
         ELSE GradeDashboard(parsed.val)

check_dashboard(c) ==
    IF c.none
    THEN Returned(<<<<"dashboard.json exists", FALSE, "File not found">>>>, 0,
                  dashboard_max_points)
    ELSE LET parsed == json_loads(c.text) IN
         IF ~parsed.ok
         THEN Returned(<<<<"Valid JSON", FALSE, "Invalid JSON">>>>, 0, dashboard_max_points)
         ELSE GradeDashboard(parsed.val)

-----------------------------------------------------------------------------
(* The files the checkers are run on: every choice of at most MaxLines     *)
(* lines of a menu, in the menu's order, each line ended by a newline.     *)

MaxLines == 6

PrometheusMenu ==
    << "# Prometheus configuration",
       "global:",
       "  scrape_interval: 15s",
       "  scrape_interval: 30s",
       "# alertmanagers",
       "  alertmanagers:",
       "  - job_name: 'prometheus'",
       "  - job_name: \"app\"",
       "  - job_name: 'app'",
       "  - job_name: 'node'",
       "  # - job_name: 'node'",
       "# job_name: 'app'" >>

AlertmanagerMenu ==
    << "global:",
       "route:",
       "# route:",
       "  group_by: ['alertname']",
       "receivers:",
       "inhibit_rules:" >>

DatasourceMenu ==
    << "apiVersion: 1",
       "# datasources",
       "datasources:",
       "    type: prometheus",
       "    # type: prometheus",
       "    url: http://prometheus:9090",
       "    url: \"http://prometheus:9090\"",
       "    url: http://localhost:9090",
       "    isDefault: true" >>

AlertsMenu ==
    << "groups:",
       "      - alert: HighErrorRate",
       "      # - alert: HighErrorRate",
       "      - alert: HighLatency",
       "#- alert: HighLatency",
       "      - alert: ServiceDown  # page",
       " \t# - alert: ServiceDown",
       "      - alert: HighCPUUsage",
       "#       - alert: HighCPUUsage",
       "        expr: up == 0  # alert: HighCPUUsage" >>

\* The chosen lines of a menu, in order, as one text.
RECURSIVE TextOf(_, _, _)
TextOf(menu, picked, n) ==
    IF n > Len(menu) THEN ""
    ELSE (IF n \in picked THEN menu[n] \o "\n" ELSE "") \o TextOf(menu, picked, n + 1)

Texts(menu) ==
    { TextOf(menu, picked, 1) :
        picked \in { s \in SUBSET (1..Len(menu)) : Cardinality(s) <= MaxLines } }

TextFiles(menu) == {None} \cup { File(t) : t \in Texts(menu) }

-----------------------------------------------------------------------------
(* Dashboard files: token sequences, most of them written from a JSON      *)
(* value the way json.dumps writes it.                                     *)

RECURSIVE Dumps(_), DumpElements(_, _), DumpMembers(_, _)

Dumps(x) ==
    IF x.k = "null" THEN <<"null">>
    ELSE IF x.k = "bool" THEN IF x.v THEN <<"true">> ELSE <<"false">>
    ELSE IF x.k = "num" THEN <<ToString(x.v)>>
    ELSE IF x.k = "str" THEN <<"\"" \o x.v \o "\"">>
    ELSE IF x.k = "list" THEN <<"[">> \o DumpElements(x.v, 1) \o <<"]">>
    ELSE <<"{">> \o DumpMembers(x.v, 1) \o <<"}">>

DumpElements(elems, n) ==
    IF n > Len(elems) THEN <<>>
    ELSE (IF n > 1 THEN <<",">> ELSE <<>>) \o Dumps(elems[n]) \o DumpElements(elems, n + 1)

DumpMembers(pairs, n) ==
    IF n > Len(pairs) THEN <<>>
    ELSE (IF n > 1 THEN <<",">> ELSE <<>>)
            \o <<"\"" \o pairs[n][1] \o "\"", ":">> \o Dumps(pairs[n][2])
            \o DumpMembers(pairs, n + 1)

MaxPanels == 4

Target(expr) == JObj(<< <<"expr", expr>> >>)

PanelWith(targets) == JObj(<< <<"type", JStr("graph")>>, <<"targets", targets>> >>)

\* Panels as a learner leaves them: no targets, a real query, a placeholder.
PanelKinds ==
    { JObj(<< <<"type", JStr("graph")>> >>),
      PanelWith(JList(<<>>)),
      PanelWith(JList(<< Target(JStr("rate(http_requests_total[5m])")) >>)),
      PanelWith(JList(<< Target(JStr("REPLACE_WITH_PROMQL")) >>)) }

PanelLists == UNION { [1..n -> PanelKinds] : n \in 0..MaxPanels }

Titles == { <<>>,
            << <<"title", JStr("App Dashboard")>> >>,
            << <<"title", JStr("Checkout Service")>> >> }

\* Dashboards of the expected shape.
Dashboards ==
    { JObj(t \o << <<"panels", JList(ps)>> >>) : t \in Titles, ps \in PanelLists }

OnePanel(panel) == JObj(<< <<"title", JStr("Checkout Service")>>, <<"panels", JList(<<panel>>)>> >>)

\* Valid JSON of another shape.
OddDashboards ==
    { JList(<<>>), JStr("dashboard"), JNum(7), JNull, JBool(TRUE),
      JObj(<<>>),
      JObj(<< <<"title", JStr("")>> >>),
      JObj(<< <<"title", JNum(7)>> >>),
      JObj(<< <<"title", JList(<<JStr("a")>>)>> >>),
      JObj(<< <<"panels", JNull>> >>),
      JObj(<< <<"panels", JNum(4)>> >>),
      JObj(<< <<"panels", JStr("")>> >>),
      JObj(<< <<"panels", JStr("four")>> >>),
      JObj(<< <<"panels", JObj(<<>>)>> >>),
      JObj(<< <<"panels", JObj(<< <<"a", JNum(1)>> >>)>> >>),
      OnePanel(JStr("graph")),
      OnePanel(JNum(1)),
      OnePanel(PanelWith(JNull)),
      OnePanel(PanelWith(JNum(2))),
      OnePanel(PanelWith(JStr(""))),
      OnePanel(PanelWith(JStr("up"))),
      OnePanel(PanelWith(JObj(<<>>))),
      OnePanel(PanelWith(JList(<<JStr("up")>>))),
      OnePanel(PanelWith(JList(<<JObj(<<>>)>>))),
      OnePanel(PanelWith(JList(<<Target(JStr(""))>>))),
      OnePanel(PanelWith(JList(<<Target(JNull)>>))),
      OnePanel(PanelWith(JList(<<Target(JNum(0))>>))),
      OnePanel(PanelWith(JList(<<Target(JBool(TRUE))>>))),
      OnePanel(PanelWith(JList(<<Target(JList(<<JStr("up")>>))>>))),
      OnePanel(PanelWith(JList(<<Target(JList(<<JStr("REPLACE_WITH")>>))>>))),
      OnePanel(PanelWith(JList(<<Target(JObj(<< <<"REPLACE_WITH", JNum(1)>> >>))>>))),
      OnePanel(PanelWith(JList(<<Target(JStr("up")), Target(JStr("REPLACE_WITH_PROMQL"))>>))) }

\* Texts that are not JSON: an empty file, a cut-off or over-long document, stray tokens.
BrokenTexts ==
    { <<>>, <<"{">>, <<"[", "]", "]">>, <<"REPLACE_WITH_JSON">>,
      <<"{", "\"title\"", ":", "\"Checkout Service\"", ",", "}">>,
      <<"{", "\"title\"", "\"Checkout Service\"", "}">>,
      <<"{", "title", ":", "\"Checkout Service\"", "}">>,
      <<"{", "\"panels\"", ":", "[", "{", "}", ",", "]", "}">>,
      <<"{", "}", "{", "}">>, <<"007">> }
      \cup { SubSeq(Dumps(d), 1, Len(Dumps(d)) - 1) :
                d \in { x \in Dashboards : Len(x.v[Len(x.v)][2].v) <= 1 } }

DashboardFiles ==
    {None} \cup { File(Dumps(d)) : d \in Dashboards \cup OddDashboards }
           \cup { File(t) : t \in BrokenTexts }

-----------------------------------------------------------------------------
(* check_all_configs                                                       *)

\* lines 320-326 (check_func by name; the fourth field is never read by the loop).
config_checks ==
    << [filepath |-> "prometheus/prometheus.yml", display_name |-> "Prometheus Config",
        check_func |-> "check_prometheus_config", max_pts |-> 20],
       [filepath |-> "alertmanager/alertmanager.yml", display_name |-> "Alertmanager",
        check_func |-> "check_alertmanager_config", max_pts |-> 20],
       [filepath |-> "grafana/provisioning/datasources/prometheus.yml",
        display_name |-> "Grafana Datasource",
        check_func |-> "check_grafana_datasource", max_pts |-> 15],
       [filepath |-> "grafana/dashboards/app-dashboard.json",
        display_name |-> "Grafana Dashboard",
        check_func |-> "check_dashboard", max_pts |-> 25],
       [filepath |-> "prometheus/rules/alerts.yml", display_name |-> "Alert Rules",
        check_func |-> "check_alerts", max_pts |-> 20] >>

\* line 331: check_func(content)
Apply(check_func, c) ==
    IF check_func = "check_prometheus_config" THEN check_prometheus_config(c)
    ELSE IF check_func = "check_alertmanager_config" THEN check_alertmanager_config(c)
    ELSE IF check_func = "check_grafana_datasource" THEN check_grafana_datasource(c)
    ELSE IF check_func = "check_dashboard" THEN check_dashboard(c)
    ELSE check_alerts(c)

\* Every file a checker is applied to, by position in config_checks.
FilesFor(n) ==
    IF n = 1 THEN TextFiles(PrometheusMenu)
    ELSE IF n = 2 THEN TextFiles(AlertmanagerMenu)
    ELSE IF n = 3 THEN TextFiles(DatasourceMenu)
    ELSE IF n = 4 THEN DashboardFiles
    ELSE TextFiles(AlertsMenu)

-----------------------------------------------------------------------------
(* One checker applied to one file.                                        *)

InitCheckers ==
    /\ pc = "call"
    /\ i \in 1..Len(config_checks)
    /\ content \in FilesFor(i)
    /\ checks = <<>>
    /\ points = 0
    /\ max_points = 0
    /\ total_points = 0
    /\ max_total = 0
    /\ progress_pct = 0
    /\ reports = <<>>

CallChecker ==
    /\ pc = "call"
    /\ \E r \in {Apply(config_checks[i].check_func, content)} :
       /\ pc' = IF r.raised = "" THEN "returned" ELSE "raised"
       /\ checks' = r.checks
       /\ points' = r.points
       /\ max_points' = r.max_points
    /\ UNCHANGED <<i, content, total_points, max_total, progress_pct, reports>>

NextCheckers == CallChecker

SpecCheckers == InitCheckers /\ [][NextCheckers]_vars

-----------------------------------------------------------------------------
(* Python floats (IEEE 754 binary64) as far as line 348 needs them: an int *)
(* divided by an int, the quotient times an int, and int() of the product. *)
(* A float other than 0.0 is its 53-bit significand, first bit 1, and the  *)
(* power of two that first bit stands for.                                 *)

FloatPrecision == 53

\* The model computes binary expansions a byte at a time.
ByteBits == 8

Byte == 256

\* Bytes of the fraction that FloatDiv computes: enough for FloatPrecision + 1
\* significant digits after the leading zeros of a quotient of two 31-bit ints.
FractionBytes == 11

Front(s) == SubSeq(s, 1, Len(s) - 1)

Last(s) == s[Len(s)]

\* The binary digits of a natural number, most significant first (none for 0).
RECURSIVE BitsOf(_)
BitsOf(n) == IF n = 0 THEN <<>> ELSE Append(BitsOf(n \div 2), n % 2)

RECURSIVE FromBits(_)
FromBits(bits) == IF bits = <<>> THEN 0 ELSE 2 * FromBits(Front(bits)) + Last(bits)

\* The ByteBits binary digits of n < Byte.
ByteDigits(n) == [k \in 1..(ByteBits - Len(BitsOf(n))) |-> 0] \o BitsOf(n)

\* bits without its leading zeros.
Significant(bits) ==
    IF \A n \in 1..Len(bits) : bits[n] = 0 THEN <<>>
    ELSE SubSeq(bits, CHOOSE n \in 1..Len(bits) :
                        bits[n] = 1 /\ \A j \in 1..(n - 1) : bits[j] = 0,
                Len(bits))

\* bits + 1 (one digit longer when every digit is 1).
Increment(bits) ==
    IF \A n \in 1..Len(bits) : bits[n] = 1
    THEN <<1>> \o [n \in 1..Len(bits) |-> 0]
    ELSE LET z == CHOOSE n \in 1..Len(bits) :
                    bits[n] = 0 /\ \A j \in (n + 1)..Len(bits) : bits[j] = 1
         IN  [n \in 1..Len(bits) |-> IF n < z THEN bits[n] ELSE IF n = z THEN 1 ELSE 0]

FloatZero == [zero |-> TRUE, mant |-> <<>>, exp |-> 0]

\* Round-to-nearest, ties-to-even, of the exact value whose digits are bits (first
\* digit 1, worth 2^exp), followed by something non-zero iff sticky.
RoundToFloat(bits, exp, sticky) ==
    IF Len(bits) <= FloatPrecision
    THEN [zero |-> FALSE,
          mant |-> bits \o [n \in 1..(FloatPrecision - Len(bits)) |-> 0],
          exp |-> exp]
    ELSE LET kept == SubSeq(bits, 1, FloatPrecision)
             guard == bits[FloatPrecision + 1]
             rest == sticky \/ \E n \in (FloatPrecision + 2)..Len(bits) : bits[n] = 1
             up == guard = 1 /\ (rest \/ Last(kept) = 1)
             inc == Increment(kept)
         IN  IF ~up THEN [zero |-> FALSE, mant |-> kept, exp |-> exp]
             ELSE IF Len(inc) > FloatPrecision
             THEN [zero |-> FALSE, mant |-> Front(inc), exp |-> exp + 1]
             ELSE [zero |-> FALSE, mant |-> inc, exp |-> exp]

\* Long division: the first n bytes of the binary expansion of r / b, for r < b.
RECURSIVE Expansion(_, _, _)
Expansion(r, b, n) ==
    IF n = 0 THEN <<>>
    ELSE ByteDigits((r * Byte) \div b) \o Expansion((r * Byte) % b, b, n - 1)

\* What is left of r after those n bytes.
RECURSIVE Remainder(_, _, _)
Remainder(r, b, n) == IF n = 0 THEN r ELSE Remainder((r * Byte) % b, b, n - 1)

\* Python: a / b for ints a >= 0, b > 0 (true division, correctly rounded).
FloatDiv(a, b) ==
    IF a = 0 THEN FloatZero
    ELSE LET whole == BitsOf(a \div b)
             digits == whole \o Expansion(a % b, b, FractionBytes)
         IN  RoundToFloat(Significant(digits),
                          Len(Significant(digits)) - 1 - ByteBits * FractionBytes,
                          Remainder(a % b, b, FractionBytes) # 0)

\* The bytes of a digit sequence, most significant first.
RECURSIVE BytesOf(_)
BytesOf(bits) ==
    IF Len(bits) <= ByteBits THEN <<FromBits(bits)>>
    ELSE Append(BytesOf(SubSeq(bits, 1, Len(bits) - ByteBits)),
                FromBits(SubSeq(bits, Len(bits) - ByteBits + 1, Len(bits))))

\* The digits of (bytes * c + carry), exactly.
RECURSIVE TimesBytes(_, _, _)
TimesBytes(bytes, c, carry) ==
    IF bytes = <<>> THEN BitsOf(carry)
    ELSE TimesBytes(Front(bytes), c, (Last(bytes) * c + carry) \div Byte)
            \o ByteDigits((Last(bytes) * c + carry) % Byte)

\* Python: f * c for a float f >= 0 and an int c > 0 (correctly rounded).
FloatTimes(f, c) ==
    IF f.zero THEN FloatZero
    ELSE LET product == Significant(TimesBytes(BytesOf(f.mant), c, 0)) IN
         RoundToFloat(product, f.exp + (Len(product) - FloatPrecision), FALSE)

\* Python: int(f) for a float 0 <= f < 2^53 (truncation).
FloatToInt(f) ==
    IF f.zero \/ f.exp < 0 THEN 0 ELSE FromBits(SubSeq(f.mant, 1, f.exp + 1))

\* line 348
Percentage(earned, total) ==
    IF total > 0 THEN FloatToInt(FloatTimes(FloatDiv(earned, total), 100)) ELSE 0

-----------------------------------------------------------------------------
(* The project directory check_all_configs reads: for each file, a few of  *)
(* the states a learner leaves it in (missing, untouched, partly done,     *)
(* done), as lines picked from the menus above.                            *)

Pick(menu, picked) == File(TextOf(menu, picked, 1))

FourPanels(kind) == JList([n \in 1..4 |-> kind])

RealPanel == PanelWith(JList(<< Target(JStr("rate(http_requests_total[5m])")) >>))

PlaceholderPanel == PanelWith(JList(<< Target(JStr("REPLACE_WITH_PROMQL")) >>))

BarePanel == JObj(<< <<"type", JStr("graph")>> >>)

ProjectFiles(n) ==
    IF n = 1 THEN
        { None,
          Pick(PrometheusMenu, {1, 2, 4}),                  \* interval left at 30s
          Pick(PrometheusMenu, {2, 3, 6, 7, 9, 10}),        \* done
          Pick(PrometheusMenu, {2, 3, 6, 7, 8, 10}),        \* done, "app" in double quotes
          Pick(PrometheusMenu, {2, 3, 6, 7, 9, 10, 12}) }   \* done, a commented copy kept
    ELSE IF n = 2 THEN
        { None,
          Pick(AlertmanagerMenu, {1}),
          Pick(AlertmanagerMenu, {1, 2}),
          Pick(AlertmanagerMenu, {1, 2, 4, 5}),
          Pick(AlertmanagerMenu, {1, 2, 4, 5, 6}) }
    ELSE IF n = 3 THEN
        { None,
          Pick(DatasourceMenu, {1, 9}),
          Pick(DatasourceMenu, {1, 3, 9}),
          Pick(DatasourceMenu, {1, 3, 4, 5, 6, 9}),
          Pick(DatasourceMenu, {1, 3, 4, 6, 9}) }
    ELSE IF n = 4 THEN
        { None,
          File(<<"{", "\"title\"", ":">>),
          File(Dumps(JList(<<>>))),
          File(Dumps(JObj(<< <<"title", JStr("App Dashboard")>>,
                             <<"panels", JList(<<BarePanel, BarePanel>>)>> >>))),
          File(Dumps(JObj(<< <<"title", JStr("App Dashboard")>>,
                             <<"panels", JList(<<RealPanel, RealPanel, PlaceholderPanel,
                                                 PlaceholderPanel>>)>> >>))),
          File(Dumps(JObj(<< <<"title", JStr("Checkout Service")>>,
                             <<"panels", FourPanels(RealPanel)>> >>))) }
    ELSE
        { None,
          Pick(AlertsMenu, {1, 3, 5, 7, 9}),
          Pick(AlertsMenu, {1, 2, 4, 7, 9}),
          Pick(AlertsMenu, {1, 2, 4, 6, 9, 10}),
          Pick(AlertsMenu, {1, 2, 4, 6, 8}) }

Init ==
    /\ pc = "loop"
    /\ i = 1
    /\ content = None
    /\ checks = <<>>
    /\ points = 0
    /\ max_points = 0
    /\ total_points = 0
    /\ max_total = 0
    /\ progress_pct = 0
    /\ reports = <<>>


\* The loop with a missing file skipped before line 334: its max_points are not added.
LoopBody_MissingNotCounted ==
    /\ pc = "loop"
    /\ i <= Len(config_checks)
    /\ \E c \in ProjectFiles(i) :
         \E r \in {Apply(config_checks[i].check_func, c)} :
         /\ content' = c
         /\ IF r.raised # ""
            THEN /\ pc' = "raised"
                 /\ UNCHANGED <<i, checks, points, max_points, total_points, max_total,
                                reports>>
            ELSE /\ pc' = "loop"
                 /\ checks' = r.checks
                 /\ points' = r.points
                 /\ max_points' = r.max_points
                 /\ total_points' = total_points + r.points
                 /\ max_total' = max_total + (IF c.none THEN 0 ELSE r.max_points)
                 /\ reports' = Append(reports, [absent |-> c.none, points |-> r.points,
                                                max_points |-> r.max_points])
                 /\ i' = i + 1
    /\ UNCHANGED progress_pct

\* lines 328-345: one iteration of the loop over config_checks.
LoopBody ==
    /\ pc = "loop"
    /\ i <= Len(config_checks)
    /\ \E c \in ProjectFiles(i) :
         \E r \in {Apply(config_checks[i].check_func, c)} :
         /\ content' = c
         /\ IF r.raised # ""
            THEN /\ pc' = "raised"
                 /\ UNCHANGED <<i, checks, points, max_points, total_points, max_total,
                                reports>>
            ELSE /\ pc' = "loop"
                 /\ checks' = r.checks
                 /\ points' = r.points
                 /\ max_points' = r.max_points
                 /\ total_points' = total_points + r.points
                 /\ max_total' = max_total + r.max_points
                 /\ reports' = Append(reports, [absent |-> c.none, points |-> r.points,
                                                max_points |-> r.max_points])
                 /\ i' = i + 1
    /\ UNCHANGED progress_pct

\* lines 347-365: the percentage, and the return value progress_pct == 100.
Progress ==
    /\ pc = "loop"
    /\ i > Len(config_checks)
    /\ progress_pct' = Percentage(total_points, max_total)
    /\ pc' = "done"
    /\ UNCHANGED <<i, content, checks, points, max_points, total_points, max_total, reports>>

Next == LoopBody \/ Progress

Spec == Init /\ [][Next]_vars

-----------------------------------------------------------------------------
(* Properties.  SpecCheckers applies one checker to one file; Spec is a    *)
(* run of check_all_configs.                                               *)

\* The rubric's maximum per artifact, in the order of config_checks.
RubricMax == <<20, 20, 15, 25, 20>>

\* The first character of a line that is not whitespace ("" for a blank line).
FirstNonSpace(line) ==
    IF \E n \in 1..Len(line) : ~IsSpace(SubSeq(line, n, n))
    THEN LET n == CHOOSE m \in 1..Len(line) :
                    /\ ~IsSpace(SubSeq(line, m, m))
                    /\ \A j \in 1..(m - 1) : IsSpace(SubSeq(line, j, j))
         IN  SubSeq(line, n, n)
    ELSE ""

\* The literal occurs on some line of the text that is not comment-prefixed.
LiveOnSomeLine(text, literal) ==
    \E lines \in {SplitLines(text)} :
        \E n \in 1..Len(lines) :
            /\ FirstNonSpace(lines[n]) # "#"
            /\ Contains(lines[n], literal)

\* A checker has been applied to a file that exists, and has returned.
ReturnedFor(n) == pc = "returned" /\ i = n /\ ~content.none

\* C1: whatever the content (absent or any text), each of the five checkers returns
\* points with 0 <= points <= max_points, and max_points is the artifact's fixed
\* maximum (20, 20, 15, 25, 20).
C1_PointsWithinFixedMax ==
    pc = "returned" =>
        /\ 0 <= points
        /\ points <= max_points
        /\ max_points = RubricMax[i]

\* C1 witness: a checker returned the full score for a file that exists.
C1_Witness == ReturnedFor(1) /\ points = max_points

\* C2: a missing file gives exactly one outcome, failed, with 0 points out of the
\* artifact's fixed maximum, and it does not end the run: the loop goes on to the
\* other files (a run that raised did so on a file that exists), and a finished run
\* has graded all five.
C2_AbsentIsOneFailedOutcome ==
    /\ pc = "raised" => ~content.none
    /\ (pc \in {"loop", "done"} /\ i > 1 /\ content.none) =>
            /\ Len(checks) = 1
            /\ checks[1][2] = FALSE
            /\ points = 0
            /\ max_points = RubricMax[i - 1]
            /\ Len(reports) = i - 1
            /\ reports[i - 1] = [absent |-> TRUE, points |-> 0,
                                 max_points |-> RubricMax[i - 1]]
    /\ pc = "done" => Len(reports) = Len(config_checks)

\* C2 witness: a finished run whose first file was missing and whose last was not.
C2_Witness ==
    /\ pc = "done"
    /\ reports[1].absent
    /\ ~reports[Len(config_checks)].absent
    /\ reports[Len(config_checks)].points > 0

\* The dashboard checker was applied to a text that is not JSON.
MalformedDashboard ==
    /\ pc # "call"
    /\ i = 4
    /\ ~content.none
    /\ ~json_loads(content.text).ok

\* C3: a dashboard text that does not parse as JSON gives exactly one outcome,
\* "Valid JSON" failed, and 0 points out of 25: no partial score.
C3_MalformedJsonScoresZero ==
    MalformedDashboard =>
        /\ pc = "returned"
        /\ Len(checks) = 1
        /\ checks[1][1] = "Valid JSON"
        /\ checks[1][2] = FALSE
        /\ points = 0
        /\ max_points = 25

\* C3 witness: a document with a title, cut off before its end, was graded.
C3_Witness ==
    /\ MalformedDashboard
    /\ pc = "returned"
    /\ \E n \in 1..Len(content.text) : content.text[n] = "\"title\""

\* C4: check_dashboard returns a result for every text that parses as JSON, whatever
\* the shape of the parsed value; it never raises.
C4_DashboardNeverRaises ==
    (i = 4 /\ pc # "call" /\ ~content.none /\ json_loads(content.text).ok)
        => pc = "returned"

\* Every file graded so far earned its maximum.
AllFull == \A n \in 1..Len(reports) : reports[n].points = reports[n].max_points

\* C5: the reported percentage is 100 (and check_all_configs returns True) exactly
\* when each of the five artifacts earned its maximum.
C5_HundredIffAllFull ==
    pc = "done" =>
        /\ Len(reports) = 5
        /\ (progress_pct = 100) <=> AllFull

\* C5 witness: a finished run that reports 100.
C5_Witness == pc = "done" /\ progress_pct = 100 /\ total_points = 100

\* The job's job_name literal, in either quoting, is on a line that is not a comment.
JobIsLive(text, job) ==
    \/ LiveOnSomeLine(text, JobPattern(job))
    \/ LiveOnSomeLine(text, JobAltPattern(job))

\* C6: a collector config with scrape_interval: 15s, an uncommented alertmanagers:
\* line and the three job_name literals uncommented earns 20 of 20, whatever else
\* the text contains.
C6_ScenarioAEarnsTwenty ==
    ( /\ ReturnedFor(1)
      /\ Contains(content.text, "scrape_interval: 15s")
      /\ LiveOnSomeLine(content.text, "alertmanagers:")
      /\ \A n \in 1..Len(jobs) : JobIsLive(content.text, jobs[n]) )
        => (points = 20 /\ max_points = 20)

\* The dashboard checker returned for a JSON object whose "panels" is a list of n
\* panels, none with a target, and whose title is missing or the default one.
NoTargets(panel) ==
    /\ panel.k = "obj"
    /\ Get(panel, "targets", JList(<<>>)) = JList(<<>>)

PanelsWithoutTargets(n) ==
    /\ ReturnedFor(4)
    /\ json_loads(content.text).ok
    /\ LET dashboard == json_loads(content.text).val IN
       /\ dashboard.k = "obj"
       /\ HasKey(dashboard.v, "panels")
       /\ Get(dashboard, "panels", JNull).k = "list"
       /\ Len(Get(dashboard, "panels", JNull).v) = n
       /\ \A m \in 1..n : NoTargets(Get(dashboard, "panels", JNull).v[m])
       /\ \/ ~HasKey(dashboard.v, "title")
          \/ Get(dashboard, "title", JNull) = JStr("App Dashboard")

\* C7 as stated: a dashboard with 2 panels, no targets and a default or missing title
\* earns 12 points.
C7_ScenarioDEarnsTwelve == PanelsWithoutTargets(2) => points = 12

\* C7 as amended: such a dashboard passes "Valid JSON" (5 points), fails the panel
\* count (0), the query rule (0) and the title rule (2), and earns 7 points.
C7_ScenarioDEarnsSeven ==
    PanelsWithoutTargets(2) =>
        /\ points = 7
        /\ max_points = 25
        /\ checks = << <<"Valid JSON", TRUE, "">>,
                       <<"4+ panels", FALSE, "Only 2 panels">>,
                       <<"Real PromQL queries", FALSE, "No real queries">>,
                       <<"Custom title", FALSE, "Using default title">> >>

\* C7 witness: such a dashboard, with the default title, was graded.
C7_Witness ==
    /\ PanelsWithoutTargets(2)
    /\ HasKey(json_loads(content.text).val.v, "title")

\* How many of the first n alert names are on a line that is not a comment.
RECURSIVE LiveAlerts(_, _)
LiveAlerts(text, n) ==
    IF n = 0 THEN 0
    ELSE LiveAlerts(text, n - 1)
            + (IF LiveOnSomeLine(text, AlertLiteral(alert_names[n])) THEN 1 ELSE 0)

\* C8: each of the four alerts passes, for 5 points, exactly when `alert: <name>` is on
\* some line whose first non-whitespace character is not #; it fails as commented out
\* when the literal is only on comment lines, and as missing when it is nowhere.
C8_AlertLivePerLine ==
    ReturnedFor(5) =>
        /\ Len(checks) = Len(alert_names)
        /\ \A n \in 1..Len(alert_names) :
              checks[n] =
                 IF LiveOnSomeLine(content.text, AlertLiteral(alert_names[n]))
                 THEN <<"Alert: " \o alert_names[n], TRUE, "Configured">>
                 ELSE IF Contains(content.text, AlertLiteral(alert_names[n]))
                 THEN <<"Alert: " \o alert_names[n], FALSE, "Commented out">>
                 ELSE <<"Alert: " \o alert_names[n], FALSE, "Missing">>
        /\ points = 5 * LiveAlerts(content.text, Len(alert_names))

\* C8 witness: one alert only on an indented comment line, one live, one missing.
C8_Witness ==
    /\ ReturnedFor(5)
    /\ checks[3] = <<"Alert: ServiceDown", FALSE, "Commented out">>
    /\ checks[1][2] = TRUE
    /\ checks[4][3] = "Missing"

\* C9: each required job passes exactly when its job_name literal is on some line
\* that is not comment-prefixed; a commented copy elsewhere changes nothing and a
\* comment-prefixed occurrence alone never passes.
C9_JobLivePerLine ==
    ReturnedFor(1) =>
        \A n \in 1..Len(jobs) :
            /\ checks[2 + n][1] = "Job: " \o jobs[n]
            /\ checks[2 + n][2] = JobIsLive(content.text, jobs[n])

\* round(n / d) for naturals n and d > 0, halves to the even neighbour as Python's round.
RoundDiv(n, d) ==
    IF 2 * (n % d) > d \/ (2 * (n % d) = d /\ (n \div d) % 2 = 1)
    THEN n \div d + 1
    ELSE n \div d

\* C10: the percentage is round(total_points / max_total * 100) when max_total > 0,
\* and 0 when max_total is 0.
C10_PercentageIsRounded ==
    pc = "done" =>
        progress_pct = IF max_total > 0 THEN RoundDiv(100 * total_points, max_total) ELSE 0

\* The dashboard checker was applied to a text that parses as JSON.
ParsedDashboard ==
    /\ pc # "call"
    /\ i = 4
    /\ ~content.none
    /\ json_loads(content.text).ok

\* Field lookup that yields the default for a missing or ill-typed field.
FieldOr(x, key, default) == IF x.k = "obj" THEN Get(x, key, default) ELSE default

ListOr(x) == IF x.k = "list" THEN x.v ELSE <<>>

\* The expr fields of all targets of all panels of a dashboard, by (panel, target).
ExprAt(dashboard, p, t) ==
    FieldOr(ListOr(FieldOr(ListOr(FieldOr(dashboard, "panels", JNull))[p],
                           "targets", JNull))[t],
            "expr", JStr(""))

TargetPlaces(dashboard) ==
    UNION { { <<p, t>> : t \in 1..Len(ListOr(FieldOr(
                                  ListOr(FieldOr(dashboard, "panels", JNull))[p],
                                  "targets", JNull))) } :
            p \in 1..Len(ListOr(FieldOr(dashboard, "panels", JNull))) }

IsPlaceholderExpr(e) == e.k = "str" /\ Contains(e.v, "REPLACE_WITH")

IsRealExpr(e) == e.k = "str" /\ e.v # "" /\ ~Contains(e.v, "REPLACE_WITH")

RealExprs(dashboard) ==
    Cardinality({ pt \in TargetPlaces(dashboard) :
                    IsRealExpr(ExprAt(dashboard, pt[1], pt[2])) })

PlaceholderExprs(dashboard) ==
    Cardinality({ pt \in TargetPlaces(dashboard) :
                    IsPlaceholderExpr(ExprAt(dashboard, pt[1], pt[2])) })

\* The points the query rule added: what is left of the total after the parse, panel
\* and title rules.
QueryPoints ==
    points - 5 - (IF checks[2][2] THEN 5 ELSE 0) - (IF checks[4][2] THEN 5 ELSE 2)

\* The three cases of the query rule, on the outcome the checker returned.
QueryRuleAsClaimed(dashboard) ==
    /\ Len(checks) = 4
    /\ checks[3][1] = "Real PromQL queries"
    /\ ( /\ Cardinality(TargetPlaces(dashboard)) > 0
         /\ RealExprs(dashboard) = Cardinality(TargetPlaces(dashboard)) )
            => (checks[3][2] /\ QueryPoints = 10)
    /\ (RealExprs(dashboard) > 0 /\ PlaceholderExprs(dashboard) > 0)
            => /\ ~checks[3][2]
               /\ QueryPoints = 5
               /\ checks[3][3] = ToString(PlaceholderExprs(dashboard))
                                    \o " placeholders remaining"
    /\ RealExprs(dashboard) = 0 => (~checks[3][2] /\ QueryPoints = 0)

\* C11: for every dashboard that parses, the query rule is evaluated, whatever the
\* panel-count and title rules found: all target expressions real passes with 10
\* points, some real and some placeholders fails with 5 points and the placeholder
\* count in the detail, none real fails with 0 points.
C11_QueryRuleClassifies ==
    ParsedDashboard =>
        /\ pc = "returned"
        /\ QueryRuleAsClaimed(json_loads(content.text).val)

\* Every expr of the dashboard is a string.
StringExprs(dashboard) ==
    \A pt \in TargetPlaces(dashboard) : ExprAt(dashboard, pt[1], pt[2]).k = "str"

\* C11 on the dashboards the checker returns for, with string expressions: there the
\* three cases hold.
C11_ClassifiesWhenReturned ==
    (ParsedDashboard /\ pc = "returned" /\ StringExprs(json_loads(content.text).val))
        => QueryRuleAsClaimed(json_loads(content.text).val)

====
